---- MODULE Spec2Model ----
(***************************************************************************)
(* TaskSelectUsers.select_nearest_available_users                          *)
(* (src/tasks/SelectUsers/task.py): one selection run over the loaded      *)
(* user list.  Every loop iteration of the filtering pipeline is one       *)
(* action; what follows the loop (sort, availability filter, truncation,   *)
(* metrics, return) is one action.                                         *)
(*                                                                         *)
(* Python values are tagged records [type, num, str] so that values of     *)
(* different Python types can be compared.  Dicts are functions from the   *)
(* keys that are present to values.  Coordinates are measured in           *)
(* kilometres of arc (degrees scaled by R*pi/180) and every numeric        *)
(* longitude equals the alert's, so that the haversine formula reduces to  *)
(* R*c = |lat2 - lat1|.  Route distances returned by OSRM are whole        *)
(* kilometres (multiples of 1000 m), so that distance / 1000.0 is exact.   *)
(* A user dict held by candidates or selected is represented by its list   *)
(* position (a reference to users[idx]).  The wall-clock outputs           *)
(* (total_computation_time, user_computation_times) are left out.          *)
(*                                                                         *)
(* Spec runs the method over records that exercise the filtering loop,     *)
(* SpecSelect over records that exercise the sort and the availability     *)
(* filter, SpecKeys over records that carry ids.                           *)
(***************************************************************************)
EXTENDS Integers, Sequences, FiniteSets, TLC

\* ------------------------------------------------------------- bounds
MaxUsers == 2       \* longest user list loaded by get_all_users
MaxRouteKm == 3     \* longest route the routing service answers with

\* ------------------------------------------------------------- values
None == [type |-> "NoneType", num |-> 0, str |-> ""]
Float(n) == [type |-> "float", num |-> n, str |-> ""]
IntVal(n) == [type |-> "int", num |-> n, str |-> ""]
Str(s) == [type |-> "str", num |-> 0, str |-> s]
Bool(b) == [type |-> "bool", num |-> IF b THEN 1 ELSE 0, str |-> ""]

\* float('inf'): greater than every finite number, equal to itself
Inf == -1

IsNumber(v) == v.type \in {"float", "int"}

\* a > b and a < b on floats that may be +infinity
FloatGT(a, b) == IF a = Inf THEN b # Inf ELSE (b # Inf /\ a > b)

FloatLT(a, b) == FloatGT(b, a)

\* Python truthiness of the values stored under 'available'
Truthy(v) ==
  CASE v.type = "bool" -> v.num = 1
    [] v.type = "NoneType" -> FALSE
    [] v.type \in {"float", "int"} -> v.num # 0
    [] OTHER -> v.str # ""

\* str(n) for the small non-negative integers used as keys
DigitStr == <<"0", "1", "2", "3", "4", "5", "6", "7", "8", "9">>

\* the key stored as it is, without str()
PyStrRaw(v) == v

\* str(user_key)
PyStr(v) == IF v.type = "str" THEN v ELSE Str(DigitStr[v.num + 1])

\* dict.get(key, default)
Get(d, key, default) == IF key \in DOMAIN d.items THEN d.items[key] ELSE default

Dict(items) == [type |-> "dict", items |-> items]

\* a list entry that is not a JSON object (a bare string)
NotADict == [type |-> "str", items |-> <<>>]

\* the {} returned by calculate_distance on failure
EmptyResponse == [raises |-> FALSE, routes |-> <<>>]

\* ------------------------------------------------------------- inputs
\* alert_location, on the grid described above
AlertLat == 0

alert_location == <<Float(AlertLat), Float(0)>>

WellFormed(lat, status) ==
  Dict(("latitude" :> lat) @@ ("longitude" :> Float(0)) @@ ("status" :> status))

With(user, key, value) == Dict(user.items @@ (key :> value))

\* a record on the pre-filter threshold, with the configured status
Near == WellFormed(Float(1), Str("driving"))

\* user records of mock_users.json for the filtering pipeline: an entry that
\* is no record, missing and null coordinates, a coordinate that is a string,
\* a wrong and a missing status, and records beyond, on and inside the
\* pre-filter threshold
Entries ==
  { NotADict,
    Dict(("longitude" :> Float(0)) @@ ("status" :> Str("driving"))),
    Dict(("latitude" :> Float(0)) @@ ("longitude" :> None)
         @@ ("status" :> Str("driving"))),
    WellFormed(Str("48.8"), Str("driving")),
    WellFormed(Float(1), Str("walking")),
    Dict(("latitude" :> Float(1)) @@ ("longitude" :> Float(0))),
    WellFormed(Float(2), Str("driving")),
    WellFormed(Float(0), Str("driving")),
    Near }

\* user records for the sort and the availability filter: the 'available'
\* flag missing, true and false, and a record the status filter rejects
FlaggedEntries ==
  { Near, With(Near, "available", Bool(TRUE)), With(Near, "available", Bool(FALSE)),
    WellFormed(Float(1), Str("walking")) }

\* user records that carry an 'id': an integer equal to a list position, and
\* a string whose text is that integer's
KeyedEntries ==
  { Dict(("longitude" :> Float(0)) @@ ("status" :> Str("driving"))
         @@ ("id" :> IntVal(1))),
    Near, With(Near, "id", IntVal(1)), With(Near, "id", Str("1")) }

\* what the HTTP request of calculate_distance can come back with: an
\* exception (connection error, timeout, HTTP error status), a JSON body
\* without a route, or a JSON body with a route (metres, seconds)
OsrmResponses ==
  { [raises |-> TRUE, routes |-> <<>>], [raises |-> FALSE, routes |-> <<>>] }
  \cup { [raises |-> FALSE,
          routes |-> <<[distance |-> 1000 * d, duration |-> MaxRouteKm + 1 - d]>>]
         : d \in 1..MaxRouteKm }

\* the constructor's arguments (lines 12-38); osrm_url and osrm_timeout_s
\* only parameterise the HTTP request
Selectors ==
  [ selection_diameter_km : {None, Float(3), Float(4)},
    user_profile_selection : {Str("driving")},
    filter_only_available : BOOLEAN,
    sort_by : {"distance", "travel_time"},
    euclidian_filter_km : {None, Float(1)} ]

\* configurations that differ in what the filtering loop reads
LoopSelectors ==
  { s \in Selectors : s.filter_only_available /\ s.sort_by = "distance" }

\* configurations that differ in what follows the loop
TailSelectors == { s \in Selectors : s.euclidian_filter_km = None }

NumUsersValues == {-1, 0, 1, 2}

ListsOf(S) == UNION { [1..n -> S] : n \in 0..MaxUsers }

\* ------------------------------------------------------------- state
VARIABLES
  self,                  \* the TaskSelectUsers object (configuration)
  num_users,             \* argument of select_nearest_available_users
  users,                 \* result of get_all_users()
  pc,                    \* "loop", "done" (returned), "raised"
  idx,                   \* loop index of the filtering loop (0-based)
  candidates,
  osrm_results_map,
  osrm_response_values,
  status_filtered,
  haversine_filtered,
  diameter_filtered,
  osrm_errors,
  invalid_coordinates,
  sorted_list,
  selected,
  filtering_metrics,     \* the returned metrics, None until the return
  exception,             \* the exception that left the method, "" if none
  calls                  \* log of the calls made to haversine_distance and
                         \* calculate_distance, in program order

inputs == <<self, num_users, users>>

counters ==
  <<status_filtered, haversine_filtered, diameter_filtered, osrm_errors,
    invalid_coordinates>>

collections == <<candidates, osrm_results_map, osrm_response_values>>

results == <<sorted_list, selected, filtering_metrics>>

vars == <<inputs, pc, idx, collections, counters, results, exception, calls>>

\* ------------------------------------------------------------- helpers
Abs(x) == IF x < 0 THEN -x ELSE x

\* haversine_distance: math.radians raises TypeError on a non-number;
\* otherwise R*c, which is |lat2 - lat1| for points of one meridian
haversine_distance(loc1, loc2) ==
  IF \E v \in {loc1[1], loc1[2], loc2[1], loc2[2]} : ~IsNumber(v)
  THEN [raises |-> TRUE, value |-> 0]
  ELSE [raises |-> FALSE, value |-> Abs(loc2[1].num - loc1[1].num)]

\* calculate_distance: <<distance_km, duration_s, full_response>> from the
\* answer `resp` of the routing service; every exception inside the try
\* (request failure, missing route) yields (inf, inf, {})
calculate_distance(loc1, loc2, resp) ==
  IF resp.raises \/ resp.routes = <<>>
  THEN <<Inf, Inf, EmptyResponse>>
  ELSE LET data == resp.routes[1]
       IN <<data.distance \div 1000, data.duration, resp>>

\* line 156 with >= for >
ExceedsRadiusInclusive(distance_km, diameter_km) ==
  ~FloatLT(IF distance_km = Inf THEN Inf ELSE 2 * distance_km, diameter_km)

\* distance_km > selection_diameter_km / 2, as 2 * distance_km > diameter
ExceedsRadius(distance_km, diameter_km) ==
  FloatGT(IF distance_km = Inf THEN Inf ELSE 2 * distance_km, diameter_km)

\* the map rebound to the new entry alone instead of updated
MapReset(m, key, value) == [k \in {key} |-> value]

\* osrm_results_map[key] = value
MapPut(m, key, value) ==
  [k \in DOMAIN m \cup {key} |-> IF k = key THEN value ELSE m[k]]

EmptyMap == [k \in {} |-> 0]

\* log entries: the function called, the list position it was called for,
\* whether it produced a finite result, and the kilometres it returned
HaversineCall(i, r) ==
  [fn |-> "haversine_distance", idx |-> i, ok |-> ~r.raises, km |-> r.value]

OsrmCall(i, resp, r) ==
  [fn |-> "calculate_distance", idx |-> i,
   ok |-> ~resp.raises /\ resp.routes # <<>>, km |-> r[1]]

\* ------------------------------------------------------------- actions
\* the state at line 109, get_all_users having returned a list over `pool`
InitWith(pool, selectors, nums) ==
  /\ self \in selectors
  /\ num_users \in nums
  /\ users \in ListsOf(pool)
  /\ pc = "loop"
  /\ idx = 0
  /\ candidates = <<>>
  /\ osrm_results_map = EmptyMap
  /\ osrm_response_values = <<>>
  /\ status_filtered = 0
  /\ haversine_filtered = 0
  /\ diameter_filtered = 0
  /\ osrm_errors = 0
  /\ invalid_coordinates = 0
  /\ sorted_list = <<>>
  /\ selected = <<>>
  /\ filtering_metrics = None
  /\ exception = ""
  /\ calls = <<>>

Init == InitWith(Entries, LoopSelectors, {2})

InitSelect == InitWith(FlaggedEntries, TailSelectors, NumUsersValues)

\* the ids that are present identify their records: no two are equal
DistinctIds(list) ==
  \A i, j \in DOMAIN list :
    (/\ i # j
     /\ "id" \in DOMAIN list[i].items
     /\ "id" \in DOMAIN list[j].items) => list[i].items["id"] # list[j].items["id"]

InitKeys == InitWith(KeyedEntries, LoopSelectors, {2}) /\ DistinctIds(users)

\* an exception leaves select_nearest_available_users (nothing catches it)
Raises(e, newcalls) ==
  /\ pc' = "raised"
  /\ exception' = e
  /\ calls' = newcalls
  /\ UNCHANGED <<inputs, idx, collections, counters, results>>

Bump(counter, name, which) == IF name = which THEN counter + 1 ELSE counter

\* the pre-filter rejection forgets its counter
RejectUncounted(which, newcalls) ==
  /\ invalid_coordinates' = Bump(invalid_coordinates, "invalid_coordinates", which)
  /\ status_filtered' = Bump(status_filtered, "status_filtered", which)
  /\ pc' = "loop"
  /\ idx' = idx + 1
  /\ calls' = newcalls
  /\ UNCHANGED <<inputs, collections, results, exception, diameter_filtered,
                 osrm_errors, haversine_filtered>>

\* `<which> += 1; continue` (lines 115-116, 122-123, 129-130)
Reject(which, newcalls) ==
  /\ invalid_coordinates' = Bump(invalid_coordinates, "invalid_coordinates", which)
  /\ status_filtered' = Bump(status_filtered, "status_filtered", which)
  /\ haversine_filtered' = Bump(haversine_filtered, "haversine_filtered", which)
  /\ pc' = "loop"
  /\ idx' = idx + 1
  /\ calls' = newcalls
  /\ UNCHANGED <<inputs, collections, results, exception, diameter_filtered,
                 osrm_errors>>

\* line 128 with >= for >
BeyondPrefilterInclusive(haversine_dist, km) == haversine_dist >= km

\* line 128: haversine_dist > self.euclidian_filter_km
BeyondPrefilter(haversine_dist, km) == haversine_dist > km

\* lines 131-159: route metrics, bookkeeping, diameter filter, append
Score(user, loc, resp, calls1) ==
  LET r == calculate_distance(alert_location, loc, resp)
      distance_km == r[1]
      duration_s == r[2]
      full_response == r[3]
      user_key == Get(user, "id", IntVal(idx))
      too_far == /\ self.selection_diameter_km # None
                 /\ ExceedsRadius(distance_km, self.selection_diameter_km.num)
  IN
  /\ osrm_errors' = IF distance_km = Inf \/ duration_s = Inf
                    THEN osrm_errors + 1 ELSE osrm_errors
  /\ osrm_results_map' =
       MapPut(osrm_results_map, user_key,
              [distance_km |-> distance_km, duration_s |-> duration_s])
  /\ osrm_response_values' =
       IF full_response # EmptyResponse
       THEN Append(osrm_response_values,
                   [user_id |-> PyStr(user_key), osrm_response |-> full_response])
       ELSE osrm_response_values
  /\ diameter_filtered' = IF too_far THEN diameter_filtered + 1 ELSE diameter_filtered
  /\ candidates' =
       IF too_far THEN candidates
       ELSE Append(candidates,
                   [user |-> idx, distance_km |-> distance_km,
                    duration_s |-> duration_s, full_response |-> full_response])
  /\ pc' = "loop"
  /\ idx' = idx + 1
  /\ calls' = Append(calls1, OsrmCall(idx, resp, r))
  /\ UNCHANGED <<inputs, results, exception, status_filtered, haversine_filtered,
                 invalid_coordinates>>

\* lines 109-159: one iteration of `for idx, user in enumerate(users)`
ProcessUser ==
  /\ pc = "loop"
  /\ idx < Len(users)
  /\ \E resp \in OsrmResponses :
       LET user == users[idx + 1] IN
       IF user.type # "dict"
       THEN Raises("AttributeError", calls)
       ELSE
         LET lat == Get(user, "latitude", None)
             lon == Get(user, "longitude", None)
             loc == <<lat, lon>>
             user_status == Get(user, "status", None)
             prefilter == self.euclidian_filter_km # None
             hav == haversine_distance(alert_location, loc)
             calls1 == IF prefilter THEN Append(calls, HaversineCall(idx, hav))
                       ELSE calls
         IN
         IF lat = None \/ lon = None
         THEN Reject("invalid_coordinates", calls)
         ELSE IF user_status # self.user_profile_selection
         THEN Reject("status_filtered", calls)
         ELSE IF prefilter /\ hav.raises
         THEN Raises("TypeError", calls1)
         ELSE IF prefilter /\ BeyondPrefilter(hav.value, self.euclidian_filter_km.num)
         THEN Reject("haversine_filtered", calls1)
         ELSE Score(user, loc, resp, calls1)

\* the sort key: lambda x: x[2] for 'travel_time', lambda x: x[1] otherwise
SortKey(c) == IF self.sort_by = "travel_time" THEN c.duration_s ELSE c.distance_km

\* an unstable sort: `c` put ahead of the elements with an equal key
InsertSortedUnstable(list, c) ==
  LET later == { i \in 1..Len(list) : ~FloatGT(SortKey(c), SortKey(list[i])) }
      at == IF later = {} THEN Len(list) + 1
            ELSE CHOOSE i \in later : \A j \in later : i <= j
  IN SubSeq(list, 1, at - 1) \o <<c>> \o SubSeq(list, at, Len(list))

\* `c` put behind every element whose key is not greater than its own
InsertSorted(list, c) ==
  LET later == { i \in 1..Len(list) : FloatLT(SortKey(c), SortKey(list[i])) }
      at == IF later = {} THEN Len(list) + 1
            ELSE CHOOSE i \in later : \A j \in later : i <= j
  IN SubSeq(list, 1, at - 1) \o <<c>> \o SubSeq(list, at, Len(list))

RECURSIVE InsertAll(_, _)
InsertAll(done, todo) ==
  IF todo = <<>> THEN done
  ELSE InsertAll(InsertSorted(done, Head(todo)), Tail(todo))

\* sorted(list, key=...): ascending and stable
Sorted(list) == InsertAll(<<>>, list)

\* line 169 with a missing flag read as "not available"
SkippedUnlessFlagged(user) ==
  self.filter_only_available /\ ~Truthy(Get(user, "available", Bool(FALSE)))

\* line 169: self.filter_only_available and not user.get('available', True)
SkippedForAvailability(user) ==
  self.filter_only_available /\ ~Truthy(Get(user, "available", Bool(TRUE)))

\* lines 172-173 with > for >=
RECURSIVE SelectLoopStrict(_, _)
SelectLoopStrict(list, sel) ==
  IF list = <<>> THEN sel
  ELSE IF SkippedForAvailability(users[Head(list).user + 1])
  THEN SelectLoopStrict(Tail(list), sel)
  ELSE LET sel1 == Append(sel, Head(list).user)
       IN IF Len(sel1) > num_users THEN sel1 ELSE SelectLoopStrict(Tail(list), sel1)

\* lines 168-173 with the length test moved ahead of the append
RECURSIVE SelectLoopTestFirst(_, _)
SelectLoopTestFirst(list, sel) ==
  IF list = <<>> \/ Len(sel) >= num_users THEN sel
  ELSE IF SkippedForAvailability(users[Head(list).user + 1])
  THEN SelectLoopTestFirst(Tail(list), sel)
  ELSE SelectLoopTestFirst(Tail(list), Append(sel, Head(list).user))

\* lines 168-173: the loop over sorted_list, from `list` on, with `sel`
\* selected so far
RECURSIVE SelectLoop(_, _)
SelectLoop(list, sel) ==
  IF list = <<>> THEN sel
  ELSE IF SkippedForAvailability(users[Head(list).user + 1])
  THEN SelectLoop(Tail(list), sel)
  ELSE LET sel1 == Append(sel, Head(list).user)
       IN IF Len(sel1) >= num_users THEN sel1 ELSE SelectLoop(Tail(list), sel1)

\* lines 187-196: the metrics record, `sel` being the selected list
FilteringMetrics(sel) ==
  [ total_users |-> Len(users),
    invalid_coordinates |-> invalid_coordinates,
    status_filtered |-> status_filtered,
    haversine_filtered |-> haversine_filtered,
    osrm_errors |-> osrm_errors,
    diameter_filtered |-> diameter_filtered,
    candidates |-> Len(candidates),
    selected |-> Len(sel) ]

\* lines 161-198, after the filtering loop: sort, availability filter and
\* truncation, metrics, return
SortSelectReturn ==
  /\ pc = "loop"
  /\ idx = Len(users)
  /\ sorted_list' = Sorted(candidates)
  /\ selected' = SelectLoop(sorted_list', <<>>)
  /\ filtering_metrics' = FilteringMetrics(selected')
  /\ pc' = "done"
  /\ UNCHANGED <<inputs, idx, collections, counters, exception, calls>>

Next == ProcessUser \/ SortSelectReturn

Spec == Init /\ [][Next]_vars

\* the same run over flagged records, for every sort key and count wanted
SpecSelect == InitSelect /\ [][Next]_vars

\* the same run over user records that carry ids
SpecKeys == InitKeys /\ [][Next]_vars

\* ------------------------------------------------------------- vocabulary
\* The claims' terms, read off the inputs and the call log.
Positions == 0..(Len(users) - 1)

UserAt(i) == users[i + 1]

IsRecord(u) == u.type = "dict"

HasCoordinates(u) ==
  /\ IsRecord(u)
  /\ "latitude" \in DOMAIN u.items /\ u.items["latitude"] # None
  /\ "longitude" \in DOMAIN u.items /\ u.items["longitude"] # None

StatusMatches(u) ==
  "status" \in DOMAIN u.items /\ u.items["status"] = self.user_profile_selection

WithinPrefilter(u) ==
  \/ self.euclidian_filter_km = None
  \/ /\ IsNumber(u.items["latitude"]) /\ IsNumber(u.items["longitude"])
     /\ Abs(u.items["latitude"].num - AlertLat) <= self.euclidian_filter_km.num

\* the candidate must be handed to the routing service
Qualifies(u) == HasCoordinates(u) /\ StatusMatches(u) /\ WithinPrefilter(u)

\* log positions of the calls made for list position i
OsrmCallsFor(i) ==
  { p \in DOMAIN calls : calls[p].fn = "calculate_distance" /\ calls[p].idx = i }

HaversineCallsFor(i) ==
  { p \in DOMAIN calls : calls[p].fn = "haversine_distance" /\ calls[p].idx = i }

\* list positions that reached route scoring, and those whose call failed
Scored == { i \in Positions : OsrmCallsFor(i) # {} }

OracleFailed == { i \in Scored : \E p \in OsrmCallsFor(i) : ~calls[p].ok }

\* list positions of the eligible candidates
Eligible == { candidates[k].user : k \in DOMAIN candidates }

Available(u) == "available" \notin DOMAIN u.items \/ u.items["available"] = Bool(TRUE)

PassesAvailability(i) == ~self.filter_only_available \/ Available(UserAt(i))

Count(S) == Cardinality(S)

Returned == pc = "done"

\* ------------------------------------------------------------- C1
\* C1: in the returned metrics invalid_coordinates + status_filtered +
\* haversine_filtered + diameter_filtered + candidates = total_users, each
\* candidate being counted in exactly one of the five buckets: the one its
\* own fields and route put it in (osrm_errors overlaps them).
MetricsPartition ==
  Returned =>
    LET m == filtering_metrics IN
    /\ m.total_users = Len(users)
    /\ m.invalid_coordinates + m.status_filtered + m.haversine_filtered
         + m.diameter_filtered + m.candidates = m.total_users
    /\ m.invalid_coordinates = Count({ i \in Positions : ~HasCoordinates(UserAt(i)) })
    /\ m.status_filtered =
         Count({ i \in Positions : HasCoordinates(UserAt(i)) /\ ~StatusMatches(UserAt(i)) })
    /\ m.haversine_filtered =
         Count({ i \in Positions : /\ HasCoordinates(UserAt(i))
                                   /\ StatusMatches(UserAt(i))
                                   /\ ~WithinPrefilter(UserAt(i)) })
    /\ m.diameter_filtered = Count(Scored \ Eligible)
    /\ m.candidates = Count(Eligible)
    /\ m.osrm_errors = Count(OracleFailed)
    /\ (self.selection_diameter_km # None => OracleFailed \subseteq Scored \ Eligible)

\* a returned run in which a failed route is counted by both osrm_errors and
\* diameter_filtered, next to a pre-filter rejection
MetricsPartitionWitness ==
  /\ Returned
  /\ filtering_metrics.total_users = 2
  /\ filtering_metrics.haversine_filtered = 1
  /\ filtering_metrics.osrm_errors = 1
  /\ filtering_metrics.diameter_filtered = 1

\* ------------------------------------------------------------- C2
EligibleAvailable == { i \in Eligible : PassesAvailability(i) }

\* C2: for positive num_users, len(selected) <= num_users, and
\* len(selected) = num_users when at least num_users eligible candidates
\* pass the availability filter.
SelectedBound ==
  (Returned /\ num_users > 0) =>
    /\ Len(selected) <= num_users
    /\ (Count(EligibleAvailable) >= num_users => Len(selected) = num_users)

\* two eligible candidates pass availability and one is wanted
SelectedBoundWitness ==
  /\ Returned
  /\ num_users = 1
  /\ Count(EligibleAvailable) = 2
  /\ Len(selected) = 1

\* ------------------------------------------------------------- C3
CandidateOf(i) == CHOOSE c \in { candidates[k] : k \in DOMAIN candidates } : c.user = i

\* the configured metric of the eligible candidate at list position i
Metric(i) ==
  IF self.sort_by = "distance" THEN CandidateOf(i).distance_km
  ELSE CandidateOf(i).duration_s

\* C3: along selected the configured metric (distance_km for sort_by =
\* distance, duration_s for travel_time) never decreases, and candidates
\* with equal metric keep their input order.
SelectedOrdered ==
  Returned =>
    \A a, b \in DOMAIN selected :
      a < b => /\ ~FloatGT(Metric(selected[a]), Metric(selected[b]))
               /\ (Metric(selected[a]) = Metric(selected[b])
                     => selected[a] < selected[b])

\* two candidates with the same finite metric are both selected
SelectedOrderedWitness ==
  /\ Returned
  /\ Len(selected) = 2
  /\ Metric(selected[1]) = Metric(selected[2])
  /\ Metric(selected[1]) # Inf

\* ------------------------------------------------------------- C5
\* C5: no exception escapes select_nearest_available_users: an entry that is
\* not a record, or whose coordinates are not numbers, is turned into a
\* rejection and the run still returns.
NoExceptionEscapes == pc # "raised"

\* ------------------------------------------------------------- C7
\* the distance_km calculate_distance returned for list position i
RouteKm(i) == calls[CHOOSE p \in OsrmCallsFor(i) : TRUE].km

BeyondRadius(i) ==
  /\ self.selection_diameter_km # None
  /\ (RouteKm(i) = Inf \/ 2 * RouteKm(i) > self.selection_diameter_km.num)

\* C7: a candidate that reached the diameter stage is rejected, and counted
\* in diameter_filtered, exactly when a diameter is configured and its route
\* distance is strictly greater than half of it; without a configured
\* diameter nothing is rejected there.
DiameterRule ==
  /\ \A i \in Scored : i \notin Eligible <=> BeyondRadius(i)
  /\ diameter_filtered = Count({ i \in Scored : BeyondRadius(i) })

\* diameter 4: a 2 km route is kept and a 3 km route is rejected
DiameterRuleWitness ==
  /\ self.selection_diameter_km = Float(4)
  /\ \E i \in Eligible : RouteKm(i) = 2
  /\ \E j \in Scored \ Eligible : RouteKm(j) = 3

\* ------------------------------------------------------------- C8
\* C8: the routing service is called exactly once, failed or not, for each
\* processed candidate that has both coordinates, the configured status and
\* passes the configured pre-filter, and never for any other; the pre-filter
\* is computed whenever it is configured, before that candidate's call.
OracleOncePerQualified ==
  \A i \in Positions :
    /\ i >= idx => OsrmCallsFor(i) = {}
    /\ i < idx =>
         /\ Count(OsrmCallsFor(i)) = IF Qualifies(UserAt(i)) THEN 1 ELSE 0
         /\ (/\ self.euclidian_filter_km # None
             /\ HasCoordinates(UserAt(i))
             /\ StatusMatches(UserAt(i)))
              => /\ Count(HaversineCallsFor(i)) = 1
                 /\ \A p \in HaversineCallsFor(i) : \A q \in OsrmCallsFor(i) : p < q

\* with a pre-filter configured, one candidate is rejected by it and another
\* passes it at the threshold and gets a failed, single call
OracleOncePerQualifiedWitness ==
  /\ Returned
  /\ self.euclidian_filter_km # None
  /\ haversine_filtered = 1
  /\ \E i \in OracleFailed : calls[CHOOSE p \in HaversineCallsFor(i) : TRUE].km
                               = self.euclidian_filter_km.num

\* ------------------------------------------------------------- C9, C10
Min(a, b) == IF a < b THEN a ELSE b

SortedUsers == [k \in DOMAIN sorted_list |-> sorted_list[k].user]

\* the sorted eligible list without the candidates skipped for availability
SortedAvailable == SelectSeq(SortedUsers, PassesAvailability)

Take(list, n) == SubSeq(list, 1, Min(n, Len(list)))

RejectionCounters ==
  invalid_coordinates + status_filtered + haversine_filtered + diameter_filtered

\* C9: (for a positive num_users) with filter_only_available false selected
\* is the first min(num_users, eligible) entries of the sorted list; with it
\* true the candidates flagged unavailable are skipped, a missing flag
\* counting as available; the skipped candidates stay in the candidates
\* metric and in no rejection counter.
AvailabilityAfterSort ==
  (Returned /\ num_users > 0) =>
    /\ selected = Take(SortedAvailable, num_users)
    /\ (~self.filter_only_available => SortedAvailable = SortedUsers)
    /\ \A i \in Eligible :
         (self.filter_only_available /\ "available" \notin DOMAIN UserAt(i).items)
           => \E k \in DOMAIN SortedAvailable : SortedAvailable[k] = i
    /\ filtering_metrics.candidates = Len(sorted_list)
    /\ RejectionCounters + Len(sorted_list) = Len(users)

\* an unavailable candidate, first in the sorted list, is skipped and a
\* candidate without the flag is selected
AvailabilityAfterSortWitness ==
  /\ Returned
  /\ num_users > 0
  /\ self.filter_only_available
  /\ Len(sorted_list) = 2
  /\ ~Available(UserAt(SortedUsers[1]))
  /\ "available" \notin DOMAIN UserAt(SortedUsers[2]).items
  /\ selected = <<SortedUsers[2]>>

\* C10: with num_users <= 0 selected holds exactly the first candidate of
\* the sorted list that passes availability, and is empty only when none does.
NonPositiveSelectsOne ==
  (Returned /\ num_users <= 0) => selected = Take(SortedAvailable, 1)

\* num_users <= 0, two eligible candidates: one is selected
NonPositiveSelectsOneWitness ==
  /\ Returned
  /\ num_users <= 0
  /\ Len(SortedAvailable) = 2
  /\ Len(selected) = 1

\* ------------------------------------------------------------- C4
\* user_key of the candidate at list position i
UserKey(i) == Get(UserAt(i), "id", IntVal(i))

Unreachable == [distance_km |-> Inf, duration_s |-> Inf]

InSelected(i) == \E k \in DOMAIN selected : selected[k] = i

\* no later candidate with an equal key reached route scoring
KeepsItsEntry(i) == \A j \in Scored : j > i => UserKey(j) # UserKey(i)

\* C4: every candidate whose oracle call failed is counted in osrm_errors,
\* its entry in route_results is (+inf, +inf) and, with a diameter
\* configured, it is neither eligible nor selected.
OracleFailureRecorded ==
  /\ osrm_errors = Count(OracleFailed)
  /\ \A i \in OracleFailed :
       /\ UserKey(i) \in DOMAIN osrm_results_map
       /\ osrm_results_map[UserKey(i)] = Unreachable
       /\ self.selection_diameter_km # None => (i \notin Eligible /\ ~InSelected(i))

\* what does hold of the failed calls: the entry stays (+inf, +inf) as long
\* as no later route-scored candidate has an equal key
OracleFailureRecordedUnlessOverwritten ==
  /\ osrm_errors = Count(OracleFailed)
  /\ \A i \in OracleFailed :
       /\ UserKey(i) \in DOMAIN osrm_results_map
       /\ KeepsItsEntry(i) => osrm_results_map[UserKey(i)] = Unreachable
       /\ self.selection_diameter_km # None => (i \notin Eligible /\ ~InSelected(i))

\* ------------------------------------------------------------- C6
ResponseKeys == { osrm_response_values[k].user_id : k \in DOMAIN osrm_response_values }

\* C6 as stated: each candidate that reached route scoring has an entry in
\* route_results and an element in raw_oracle_responses; each candidate
\* rejected earlier has neither.
ScoredAreRecorded ==
  Returned =>
    \A i \in Positions :
      /\ i \in Scored => /\ UserKey(i) \in DOMAIN osrm_results_map
                         /\ PyStr(UserKey(i)) \in ResponseKeys
      /\ i \notin Scored => /\ UserKey(i) \notin DOMAIN osrm_results_map
                            /\ PyStr(UserKey(i)) \notin ResponseKeys

\* log entries of the calls that returned a route, in call order
RoutedCalls ==
  SelectSeq(calls, LAMBDA e : e.fn = "calculate_distance" /\ e.ok)

\* C6 amended: route_results has an entry under the key of every candidate
\* that reached route scoring, and under no other key; raw_oracle_responses
\* holds, in call order, one element {str(key), response} for each of them
\* whose call returned a route, and none for a failed call or for a
\* candidate rejected earlier.
ScoredAreRecordedWhenRouted ==
  Returned =>
    /\ DOMAIN osrm_results_map = { UserKey(i) : i \in Scored }
    /\ Len(osrm_response_values) = Len(RoutedCalls)
    /\ \A k \in DOMAIN osrm_response_values :
         /\ osrm_response_values[k].user_id = PyStr(UserKey(RoutedCalls[k].idx))
         /\ osrm_response_values[k].osrm_response # EmptyResponse
         /\ osrm_response_values[k].osrm_response.routes[1].distance
              = 1000 * RoutedCalls[k].km

\* a returned run in which one route-scored candidate's call failed, another
\* one's succeeded and was then rejected by the diameter
ScoredAreRecordedWitness ==
  /\ Returned
  /\ OracleFailed # {}
  /\ Len(osrm_response_values) = 1
  /\ \E i \in Scored \ (Eligible \cup OracleFailed) :
       osrm_response_values[1].user_id = PyStr(UserKey(i))

====
